---------------------------- MODULE Spec2Model ----------------------------
(***************************************************************************)
(* Model of analise.py, the SolarZ monitoring dashboard: load_data (cached *)
(* by st.cache_data), apply_generation_range_filter, the status filters,   *)
(* the summary metrics and the four six-band bucket charts.                *)
(*                                                                         *)
(* Conventions.                                                            *)
(*  - A CSV cell is a token: a sequence of one-character strings, <<>> for *)
(*    an empty cell.                                                       *)
(*  - Numbers are integers in tenths: "48,5" is 485 and the threshold 90  *)
(*    is 900.                                                              *)
(*  - A DataFrame cell is a record [k, v, s]: k = "num" with value v,      *)
(*    k = "str" with string s, or k = "nan" (NaN).                         *)
(*  - Dates are day numbers; NaT is the missing date.                      *)
(*  - Column and option names are written without accents: "Diario" is     *)
(*    'Diário' and the column 'Geração % diária'.                          *)
(***************************************************************************)
EXTENDS Integers, Sequences, FiniteSets

VARIABLES
    csv,      \* DSZ.csv on disk: [cols, rows]
    today,    \* datetime.now().date() as a day number
    cache,    \* st.cache_data entry of load_data: [valid, df, src, data_atual]
    sel,      \* the four sidebar selectboxes
    out,      \* what the last script run rendered
    call      \* last direct call of apply_generation_range_filter: [done, arg, col, faixa, ret, arg_after, warned]

vars == <<csv, today, cache, sel, out, call>>

-----------------------------------------------------------------------------
(* Bounds of the model                                                     *)

MaxRows == 2
MaxAdvance == 1
MaxEdits == 1

(* Program constants                                                       *)

WarrantyDays == 365

\* the band thresholds, in tenths
P90 == 900
P80 == 800
P70 == 700
P60 == 600
P50 == 500
P45 == 450

\* the day of the first script run
Day0 == WarrantyDays + 35

NaT == -1

Periods == {"Diario", "Quinzenal", "Mensal", "Anual"}
periodo_geracao_options == {"Todos"} \cup Periods
Faixas == {"> 90%", "80% < x <= 90%", "70% < x <= 80%", "60% < x <= 70%", "50% < x <= 60%", "< 45%"}
faixa_geracao_options == {"Todos"} \cup Faixas

-----------------------------------------------------------------------------
(* Cells and text conversion                                               *)

\* body(v) with v evaluated once: the value of a local variable
With(v, Body(_)) == CHOOSE r \in {Body(x) : x \in {v}} : TRUE

NaNCell == [k |-> "nan", v |-> 0, s |-> <<>>]
NumCell(n) == [k |-> "num", v |-> n, s |-> <<>>]
StrCell(t) == [k |-> "str", v |-> 0, s |-> t]

DigitChars == {"0", "1", "2", "3", "4", "5", "6", "7", "8", "9"}

DigitVal(c) ==
    CASE c = "0" -> 0 [] c = "1" -> 1 [] c = "2" -> 2 [] c = "3" -> 3
      [] c = "4" -> 4 [] c = "5" -> 5 [] c = "6" -> 6 [] c = "7" -> 7
      [] c = "8" -> 8 [] c = "9" -> 9

RECURSIVE StrReplace(_, _, _)
\* str.replace(ch, rep, regex=False): every occurrence of ch becomes rep
StrReplace(s, ch, rep) ==
    IF s = <<>> THEN <<>>
    ELSE (IF Head(s) = ch THEN rep ELSE <<Head(s)>>) \o StrReplace(Tail(s), ch, rep)

AllDigits(s) == \A i \in 1..Len(s) : s[i] \in DigitChars

RECURSIVE DigitsVal(_)
DigitsVal(s) == IF s = <<>> THEN 0 ELSE DigitsVal(SubSeq(s, 1, Len(s) - 1)) * 10 + DigitVal(s[Len(s)])

DotPos(s) == IF \E i \in 1..Len(s) : s[i] = "." THEN CHOOSE i \in 1..Len(s) : s[i] = "." /\ \A j \in 1..(i - 1) : s[j] # "." ELSE 0

\* an unsigned decimal literal with at most one fractional digit that matters
UnsignedNumeric(s) ==
    With(DotPos(s), LAMBDA d :
    LET ip == IF d = 0 THEN s ELSE SubSeq(s, 1, d - 1)
        fp == IF d = 0 THEN <<>> ELSE SubSeq(s, d + 1, Len(s))
        ok == /\ AllDigits(ip) /\ AllDigits(fp)
              /\ Len(ip) + Len(fp) > 0
              /\ \A i \in 2..Len(fp) : fp[i] = "0"
    IN  IF ok THEN NumCell(DigitsVal(ip) * 10 + (IF fp = <<>> THEN 0 ELSE DigitVal(fp[1])))
        ELSE NaNCell)

\* the numeric parse of one string, errors='coerce': a number or NaN
ParseNumber(s) ==
    IF s # <<>> /\ Head(s) = "-"
    THEN LET u == UnsignedNumeric(Tail(s)) IN IF u.k = "num" THEN NumCell(0 - u.v) ELSE NaNCell
    ELSE UnsignedNumeric(s)

\* astype(str) of one cell
\* (an object column read from a CSV holds only strings and NaN)
AsStr(c) ==
    CASE c.k = "str" -> c.s
      [] c.k = "nan" -> <<"n", "a", "n">>

\* pd.to_numeric(..., errors='coerce') of one cell
ToNumeric(c) == IF c.k = "str" THEN ParseNumber(c.s) ELSE c

\* pd.to_datetime(..., errors='coerce') of one date token [k, d]
ToDatetime(t) == IF t.k = "date" THEN t.d ELSE NaT

notna(x) == x # NaT

-----------------------------------------------------------------------------
(* DataFrames                                                              *)

SeqMap(F(_), s) == [i \in 1..Len(s) |-> F(s[i])]

RowCount(rows, Test(_)) == Cardinality({i \in 1..Len(rows) : Test(rows[i])})

\* type inference of pd.read_csv for one generation column
ColumnIsNumeric(file, p) ==
    /\ Len(file.rows) > 0
    /\ \A i \in 1..Len(file.rows) :
          LET t == file.rows[i].gen[p] IN t = <<>> \/ ParseNumber(t).k = "num"

ReadCell(t, numeric) ==
    IF t = <<>> THEN NaNCell
    ELSE IF numeric THEN ParseNumber(t)
    ELSE StrCell(t)

\* pd.read_csv("DSZ.csv")
ReadCsv(file) ==
    With([p \in Periods |-> IF ColumnIsNumeric(file, p) THEN "float64" ELSE "object"],
         LAMBDA dtype :
    [columns |-> file.cols,
     dtype |-> dtype,
     rows |-> [i \in 1..Len(file.rows) |->
                 [idx |-> i - 1,
                  pot |-> ReadCell(file.rows[i].pot, FALSE),
                  inst |-> file.rows[i].inst,
                  off |-> file.rows[i].off,
                  gen |-> [p \in Periods |->
                             IF p \in file.cols
                             THEN ReadCell(file.rows[i].gen[p], dtype[p] = "float64")
                             ELSE NaNCell]]]])

StatusDaGarantia_AtOrBefore(x, data_um_ano_atras) ==
    IF notna(x) /\ x <= data_um_ano_atras THEN "Fora da Garantia" ELSE "Na Garantia"

StatusDaGarantia(x, data_um_ano_atras) ==
    IF notna(x) /\ x < data_um_ano_atras THEN "Fora da Garantia" ELSE "Na Garantia"

StatusOperacional_Swapped(x) == IF notna(x) THEN "Online" ELSE "Offline"

StatusOperacional(x) == IF notna(x) THEN "Offline" ELSE "Online"

\* the body of load_data, run when the cache has no entry
load_data(file, now) ==
    With(ReadCsv(file), LAMBDA raw :
    LET data_atual == now
        data_um_ano_atras == data_atual - WarrantyDays
        Derive(r) ==
            LET i == ToDatetime(r.inst)
                o == ToDatetime(r.off)
            IN  [idx |-> r.idx,
                 pot |-> ToNumeric(r.pot),
                 inst |-> i,
                 off |-> o,
                 gen |-> r.gen,
                 garantia |-> StatusDaGarantia(i, data_um_ano_atras),
                 operacional |-> StatusOperacional(o)]
    IN  [columns |-> raw.columns, dtype |-> raw.dtype, rows |-> SeqMap(Derive, raw.rows)])

\* @st.cache_data: the body runs once; later calls return the stored value
CachedLoad(c, file, now) ==
    IF c.valid THEN c
    ELSE [valid |-> TRUE, df |-> load_data(file, now), src |-> file, data_atual |-> now]

-----------------------------------------------------------------------------
(* apply_generation_range_filter                                           *)

\* df.copy(): a new frame with the same columns, dtypes and rows
Copy(df) == [columns |-> df.columns, dtype |-> df.dtype, rows |-> df.rows]

\* pd.DataFrame(columns=...): no rows, every column of dtype object
EmptyFrame(cols) == [columns |-> cols, dtype |-> [p \in Periods |-> "object"], rows |-> <<>>]

\* lines 49-54: the text clean-up of an object column
CleanText(df, col) ==
    IF df.dtype[col] = "object"
    THEN LET Clean(r) ==
                [r EXCEPT !.gen[col] =
                    StrCell(StrReplace(StrReplace(AsStr(r.gen[col]), "%", <<>>), ",", <<".">>))]
         IN  [df EXCEPT !.rows = SeqMap(Clean, df.rows)]
    ELSE df

\* line 57: the column converted with pd.to_numeric(errors='coerce')
CoerceColumn(df, col) ==
    LET Num(r) == [r EXCEPT !.gen[col] = ToNumeric(r.gen[col])]
    IN  [df EXCEPT !.rows = SeqMap(Num, df.rows), !.dtype[col] = "float64"]

\* line 61: dropna(subset=[col])
DropNa(df, col) ==
    LET Has(r) == r.gen[col].k = "num"
    IN  [df EXCEPT !.rows = SelectSeq(df.rows, Has)]

FaixaMask_ClosedBelow(faixa, v) ==
    CASE faixa = "> 90%" -> v >= P90
      [] faixa = "80% < x <= 90%" -> v >= P80 /\ v <= P90
      [] faixa = "70% < x <= 80%" -> v >= P70 /\ v <= P80
      [] faixa = "60% < x <= 70%" -> v >= P60 /\ v <= P70
      [] faixa = "50% < x <= 60%" -> v >= P50 /\ v <= P60
      [] faixa = "< 45%" -> v < P45
      [] OTHER -> TRUE

FaixaMask_Upto45(faixa, v) ==
    CASE faixa = "> 90%" -> v > P90
      [] faixa = "80% < x <= 90%" -> v > P80 /\ v <= P90
      [] faixa = "70% < x <= 80%" -> v > P70 /\ v <= P80
      [] faixa = "60% < x <= 70%" -> v > P60 /\ v <= P70
      [] faixa = "50% < x <= 60%" -> v > P50 /\ v <= P60
      [] faixa = "< 45%" -> v <= P45
      [] OTHER -> TRUE

\* lines 70-81: the boolean mask of one bucket label
FaixaMask(faixa, v) ==
    CASE faixa = "> 90%" -> v > P90
      [] faixa = "80% < x <= 90%" -> v > P80 /\ v <= P90
      [] faixa = "70% < x <= 80%" -> v > P70 /\ v <= P80
      [] faixa = "60% < x <= 70%" -> v > P60 /\ v <= P70
      [] faixa = "50% < x <= 60%" -> v > P50 /\ v <= P60
      [] faixa = "< 45%" -> v < P45
      [] OTHER -> TRUE

MissingColumnResult_Empty(df_to_filter) == EmptyFrame(df_to_filter.columns)

\* the branch taken when the column is not in the frame (lines 41-43)
MissingColumnResult(df_to_filter) == Copy(df_to_filter)

\* the whole function: what it returns, what it leaves in the caller's frame,
\* and the messages it shows
apply_generation_range_filter(df_to_filter, generation_col, faixa_geracao) ==
    IF faixa_geracao = "Todos"
    THEN [ret |-> Copy(df_to_filter), arg_after |-> df_to_filter, warning |-> "", info |-> 0]
    ELSE IF generation_col \notin df_to_filter.columns
    THEN [ret |-> MissingColumnResult(df_to_filter), arg_after |-> df_to_filter,
          warning |-> "coluna nao encontrada", info |-> 0]
    ELSE With(CoerceColumn(CleanText(Copy(df_to_filter), generation_col), generation_col),
              LAMBDA coerced :
         With(DropNa(coerced, generation_col), LAMBDA df_filtered :
         LET original_rows_before_dropna == Len(coerced.rows)
             removed == original_rows_before_dropna - Len(df_filtered.rows)
             Keep(r) == FaixaMask(faixa_geracao, r.gen[generation_col].v)
         IN  IF df_filtered.rows = <<>>
             THEN [ret |-> EmptyFrame(df_to_filter.columns), arg_after |-> df_to_filter,
                   warning |-> "vazio", info |-> removed]
             ELSE [ret |-> [df_filtered EXCEPT !.rows = SelectSeq(df_filtered.rows, Keep)],
                   arg_after |-> df_to_filter, warning |-> "", info |-> removed]))

-----------------------------------------------------------------------------
(* The script                                                              *)

\* ['Todos'] + list(df[...].unique())
warranty_options(df) == {"Todos"} \cup {df.rows[i].garantia : i \in 1..Len(df.rows)}
operational_options(df) == {"Todos"} \cup {df.rows[i].operacional : i \in 1..Len(df.rows)}

\* reset_index(drop=True)
ResetIndex(df) == [df EXCEPT !.rows = [i \in 1..Len(df.rows) |-> [df.rows[i] EXCEPT !.idx = i - 1]]]

\* lines 120-129
FilteredDf(df, s) ==
    LET W(r) == s.warranty = "Todos" \/ r.garantia = s.warranty
        O(r) == s.operational = "Todos" \/ r.operacional = s.operational
    IN  With([Copy(df) EXCEPT !.rows = SelectSeq(SelectSeq(df.rows, W), O)],
             LAMBDA filtered : ResetIndex(filtered))

GlobalMetrics_OfFiltered(df, filtered_df) ==
    LET On(r) == r.operacional = "Online"
        Off(r) == r.operacional = "Offline"
    IN  [total |-> Len(filtered_df.rows), online |-> RowCount(filtered_df.rows, On),
         offline |-> RowCount(filtered_df.rows, Off)]

\* lines 149-151, computed on df
GlobalMetrics(df, filtered_df) ==
    LET On(r) == r.operacional = "Online"
        Off(r) == r.operacional = "Offline"
    IN  [total |-> Len(df.rows), online |-> RowCount(df.rows, On), offline |-> RowCount(df.rows, Off)]

\* value_counts(): the count of each value that occurs
OperationalCounts(t) ==
    LET vals == {t.rows[i].operacional : i \in 1..Len(t.rows)}
    IN  [x \in vals |-> Cardinality({i \in 1..Len(t.rows) : t.rows[i].operacional = x})]

WarrantyCounts(t) ==
    LET vals == {t.rows[i].garantia : i \in 1..Len(t.rows)}
    IN  [x \in vals |-> Cardinality({i \in 1..Len(t.rows) : t.rows[i].garantia = x})]

\* a comparison of a column with a number raises when the column is missing
\* (KeyError) or holds a string (TypeError: str against int)
CompareRaises(t, col) ==
    \/ col \notin t.columns
    \/ \E i \in 1..Len(t.rows) : t.rows[i].gen[col].k = "str"

\* lines 201-206: the six counts; NaN compares False with everything
BucketCounts(t, col) ==
    LET V(r) == r.gen[col]
        B1(r) == V(r).k = "num" /\ V(r).v > P90
        B2(r) == V(r).k = "num" /\ V(r).v > P80 /\ V(r).v <= P90
        B3(r) == V(r).k = "num" /\ V(r).v > P70 /\ V(r).v <= P80
        B4(r) == V(r).k = "num" /\ V(r).v > P60 /\ V(r).v <= P70
        B5(r) == V(r).k = "num" /\ V(r).v > P50 /\ V(r).v <= P60
        B6(r) == V(r).k = "num" /\ V(r).v < P45
    IN  <<RowCount(t.rows, B1), RowCount(t.rows, B2), RowCount(t.rows, B3),
          RowCount(t.rows, B4), RowCount(t.rows, B5), RowCount(t.rows, B6)>>

\* one chart block: the comparisons of lines 201-206 either raise or give the counts
ChartOf(df_for_chart, p) ==
    With(df_for_chart, LAMBDA t :
    [table |-> t, raised |-> CompareRaises(t, p),
     counts |-> IF CompareRaises(t, p) THEN <<>> ELSE BucketCounts(t, p)])

DailyChart(filtered_df, s) ==
    ChartOf(IF s.periodo = "Diario" \/ s.periodo = "Todos"
            THEN apply_generation_range_filter(Copy(filtered_df), "Diario", s.faixa).ret
            ELSE Copy(filtered_df), "Diario")

FortnightlyChart(filtered_df, s) ==
    ChartOf(IF s.periodo = "Quinzenal" \/ s.periodo = "Todos"
            THEN apply_generation_range_filter(Copy(filtered_df), "Quinzenal", s.faixa).ret
            ELSE Copy(filtered_df), "Quinzenal")

MonthlyChart(filtered_df, s) ==
    ChartOf(IF s.periodo = "Mensal" \/ s.periodo = "Todos"
            THEN apply_generation_range_filter(Copy(filtered_df), "Mensal", s.faixa).ret
            ELSE Copy(filtered_df), "Mensal")

AnnualChart(filtered_df, s) ==
    ChartOf(IF s.periodo = "Anual" \/ s.periodo = "Todos"
            THEN apply_generation_range_filter(Copy(filtered_df), "Anual", s.faixa).ret
            ELSE Copy(filtered_df), "Anual")

NotReached == [ran |-> FALSE, table |-> EmptyFrame({}), raised |-> FALSE, counts |-> <<>>]

Reached(c) == [ran |-> TRUE, table |-> c.table, raised |-> c.raised, counts |-> c.counts]

\* one run of the script from line 34 to the end, or to the first statement
\* that raises; run_day and run_csv record the clock and the file of the run
RunScript(df, s, now, file) ==
    With(FilteredDf(df, s), LAMBDA filtered_df :
    With(DailyChart(filtered_df, s), LAMBDA d :
    With(FortnightlyChart(filtered_df, s), LAMBDA q :
    With(MonthlyChart(filtered_df, s), LAMBDA m :
    With(AnnualChart(filtered_df, s), LAMBDA a :
    LET HasPot(r) == r.pot.k = "num"
        okD == ~d.raised
        okQ == okD /\ ~q.raised
        okM == okQ /\ ~m.raised
        okA == okM /\ ~a.raised
    IN  [ran |-> TRUE,
         status |-> IF okA THEN "done" ELSE "abort",
         run_day |-> now,
         run_csv |-> file,
         warranty_options |-> warranty_options(df),
         operational_options |-> operational_options(df),
         filtered_df |-> filtered_df,
         boxplot |-> SelectSeq(filtered_df.rows, HasPot),
         metrics |-> GlobalMetrics(df, filtered_df),
         operational_pie |-> [shown |-> filtered_df.rows # <<>>, counts |-> OperationalCounts(filtered_df)],
         warranty_pie |-> [shown |-> TRUE, counts |-> WarrantyCounts(filtered_df)],
         charts |-> [p \in Periods |->
                        CASE p = "Diario" -> Reached(d)
                          [] p = "Quinzenal" -> IF okD THEN Reached(q) ELSE NotReached
                          [] p = "Mensal" -> IF okQ THEN Reached(m) ELSE NotReached
                          [] p = "Anual" -> IF okM THEN Reached(a) ELSE NotReached],
         table_shown |-> okA,
         table_rows |-> IF okA THEN filtered_df.rows ELSE <<>>])))))

-----------------------------------------------------------------------------
(* State machine                                                           *)

DefaultSel == [periodo |-> "Todos", faixa |-> "Todos", warranty |-> "Todos", operational |-> "Todos"]

NoCache == [valid |-> FALSE, df |-> EmptyFrame({}), src |-> [cols |-> {}, rows |-> <<>>], data_atual |-> NaT]

NoOut == [ran |-> FALSE]

NoCall == [done |-> FALSE]

Widgets == {"periodo", "faixa", "warranty", "operational"}

\* the options the last run put in each selectbox
Options(w) ==
    CASE w = "periodo" -> periodo_geracao_options
      [] w = "faixa" -> faixa_geracao_options
      [] w = "warranty" -> out.warranty_options
      [] w = "operational" -> out.operational_options

\* the script runs top to bottom with the selections s
Rerun(s) ==
    /\ cache' = CachedLoad(cache, csv, today)
    /\ sel' = s
    /\ out' = RunScript(cache'.df, s, today, csv)
    /\ UNCHANGED <<csv, today, call>>

\* the page is opened: first run, every selectbox on its first option
Open ==
    /\ ~out.ran
    /\ Rerun(DefaultSel)

\* the user picks value v in selectbox w; the script reruns
Interact(w, v) ==
    /\ out.ran
    /\ v \in Options(w)
    /\ Rerun([sel EXCEPT ![w] = v])

\* the page is reloaded with the selections kept
Refresh ==
    /\ out.ran
    /\ Rerun(sel)

\* midnight passes
AdvanceDay ==
    /\ today < Day0 + MaxAdvance
    /\ today' = today + 1
    /\ UNCHANGED <<csv, cache, sel, out, call>>

OffDate == [k |-> "date", d |-> Day0 - 3]
NoDate == [k |-> "empty", d |-> 0]
BadDate == [k |-> "bad", d |-> 0]

EditedRows(a, b) == Cardinality({i \in 1..Len(a.rows) : a.rows[i] # b.rows[i]})

\* DSZ.csv is edited on disk after it was loaded: plant i goes offline or
\* comes back online
EditOffline(i) ==
    /\ cache.valid
    /\ i \in 1..Len(csv.rows)
    /\ csv.rows[i].off.k \in {"date", "empty"}
    /\ csv' = [csv EXCEPT !.rows[i].off = IF @.k = "date" THEN NoDate ELSE OffDate]
    /\ EditedRows(csv', cache.src) <= MaxEdits
    /\ UNCHANGED <<today, cache, sel, out, call>>

\* a direct call of apply_generation_range_filter on the loaded frame
CallFilter(col, faixa) ==
    /\ ~call.done
    /\ call' = With(load_data(csv, today), LAMBDA arg :
                With(apply_generation_range_filter(arg, col, faixa), LAMBDA r :
                [done |-> TRUE, arg |-> arg, col |-> col, faixa |-> faixa,
                 ret |-> r.ret, arg_after |-> r.arg_after,
                 warning |-> r.warning, info |-> r.info]))
    /\ UNCHANGED <<csv, today, cache, sel, out>>

-----------------------------------------------------------------------------
(* The inputs the specifications draw from                                 *)

DateTok(d) == [k |-> "date", d |-> d]
Old == DateTok(Day0 - 400)
Recent == DateTok(Day0 - 30)

\* one CSV line: system power, the four generation readings, the two dates
Line(pot, d, q, m, a, inst, off) ==
    [pot |-> pot, inst |-> inst, off |-> off,
     gen |-> [p \in Periods |-> CASE p = "Diario" -> d [] p = "Quinzenal" -> q
                                  [] p = "Mensal" -> m [] p = "Anual" -> a]]

PipeLines ==
    {Line(<<"5", ".", "5">>, <<"9", "5">>, <<"8", "5">>, <<"7", "2">>, <<"4", "8">>, Old, OffDate),
     Line(<<"a", "b", "c">>, <<"4", "0">>, <<"4", "5">>, <<"5", "0", ".", "5">>, <<>>, Recent, NoDate),
     Line(<<>>, <<"8", "5", "%">>, <<"4", "8", ",", "5">>, <<"a", "b", "c">>, <<"9", "5">>, Old, NoDate),
     Line(<<"1", "0">>, <<"4", "8">>, <<>>, <<"9", "0">>, <<"9", "0", "%">>, Recent, OffDate)}

FilterLines ==
    {Line(<<"1", "0">>, <<"4", "4", ".", "9">>, <<"6", "0">>, <<"7", "0">>, <<"9", "5">>, Recent, NoDate),
     Line(<<"1", "0">>, <<"4", "5">>, <<"6", "0", ",", "1">>, <<"7", "0", ".", "1">>, <<"8", "5">>, Recent, NoDate),
     Line(<<"1", "0">>, <<"4", "5", ".", "1">>, <<"9", "0", "%">>, <<"8", "0">>, <<>>, Recent, NoDate),
     Line(<<"1", "0">>, <<"5", "0">>, <<"9", "0", ".", "1">>, <<"8", "0", ".", "1">>, <<"4", "8">>, Recent, NoDate),
     Line(<<"1", "0">>, <<"5", "0", ".", "1">>, <<"a", "b", "c">>, <<"9", "0">>, <<"-", "5">>, Recent, NoDate),
     Line(<<"1", "0">>, <<"9", "5">>, <<>>, <<"6", "0", ".", "1">>, <<"4", "0">>, Recent, NoDate),
     Line(<<"1", "0">>, <<>>, <<"7", "0">>, <<"8", "5", "%">>, <<"9", "0">>, Recent, NoDate),
     Line(<<"1", "0">>, <<"-", "5">>, <<"4", "8", ",", "5">>, <<"%">>, <<"5", "0", ".", "5">>, Recent, NoDate)}

LoadDates ==
    {[inst |-> DateTok(Day0 - WarrantyDays - 1), off |-> NoDate],
     [inst |-> DateTok(Day0 - WarrantyDays), off |-> OffDate],
     [inst |-> DateTok(Day0 - WarrantyDays + 1), off |-> BadDate],
     [inst |-> NoDate, off |-> OffDate],
     [inst |-> BadDate, off |-> NoDate],
     [inst |-> Old, off |-> OffDate]}

LoadLines ==
    {Line(<<"1", "0">>, <<"9", "5">>, <<"8", "5">>, <<"7", "2">>, <<"4", "8">>, x.inst, x.off) : x \in LoadDates}

\* the files with one to MaxRows lines
Files(colsets, lines) ==
    {[cols |-> c, rows |-> r] : c \in colsets, r \in UNION {[1..n -> lines] : n \in 1..MaxRows}}

InitCommon ==
    /\ today = Day0
    /\ cache = NoCache
    /\ sel = DefaultSel
    /\ out = NoOut
    /\ call = NoCall

\* the dashboard: a file with well-formed and malformed generation cells, with
\* or without the monthly column, and every sidebar interaction
Init ==
    /\ csv \in Files({Periods, Periods \ {"Mensal"}}, PipeLines)
    /\ InitCommon

Next ==
    \/ Open
    \/ \E w \in Widgets : \E v \in periodo_geracao_options \cup faixa_geracao_options \cup {"Na Garantia", "Fora da Garantia", "Online", "Offline"} : Interact(w, v)

Spec == Init /\ [][Next]_vars

\* loading: date cells of every kind, the clock and the file changing under the cache
InitLoad ==
    /\ csv \in Files({Periods}, LoadLines)
    /\ InitCommon

NextLoad ==
    \/ Open
    \/ Refresh
    \/ AdvanceDay
    \/ \E i \in 1..MaxRows : EditOffline(i)

SpecLoad == InitLoad /\ [][NextLoad]_vars

\* apply_generation_range_filter as a function: every column and label on
\* frames with boundary values and text cells, with or without the annual column
InitFilter ==
    /\ csv \in Files({Periods, Periods \ {"Anual"}}, FilterLines)
    /\ InitCommon

NextFilter == \E col \in Periods : \E faixa \in faixa_geracao_options : CallFilter(col, faixa)

SpecFilter == InitFilter /\ [][NextFilter]_vars

-----------------------------------------------------------------------------
(* What the cells of the input files are worth, stated cell by cell         *)
(* ("85%" is 85, "48,5" is 48.5; anything else is not a number)            *)

ExpectedValue(t) ==
    CASE t = <<"9", "5">> -> {950}
      [] t = <<"8", "5">> -> {850}
      [] t = <<"7", "2">> -> {720}
      [] t = <<"4", "8">> -> {480}
      [] t = <<"4", "0">> -> {400}
      [] t = <<"4", "5">> -> {450}
      [] t = <<"5", "0", ".", "5">> -> {505}
      [] t = <<"8", "5", "%">> -> {850}
      [] t = <<"4", "8", ",", "5">> -> {485}
      [] t = <<"9", "0">> -> {900}
      [] t = <<"9", "0", "%">> -> {900}
      [] t = <<"4", "4", ".", "9">> -> {449}
      [] t = <<"6", "0">> -> {600}
      [] t = <<"7", "0">> -> {700}
      [] t = <<"6", "0", ",", "1">> -> {601}
      [] t = <<"7", "0", ".", "1">> -> {701}
      [] t = <<"4", "5", ".", "1">> -> {451}
      [] t = <<"8", "0">> -> {800}
      [] t = <<"5", "0">> -> {500}
      [] t = <<"9", "0", ".", "1">> -> {901}
      [] t = <<"8", "0", ".", "1">> -> {801}
      [] t = <<"5", "0", ".", "1">> -> {501}
      [] t = <<"-", "5">> -> {0 - 50}
      [] t = <<"6", "0", ".", "1">> -> {601}
      [] OTHER -> {}

\* the bands as the charts and the filter labels name them, in tenths
InBand(b, v) ==
    CASE b = 1 -> v > 900
      [] b = 2 -> 800 < v /\ v <= 900
      [] b = 3 -> 700 < v /\ v <= 800
      [] b = 4 -> 600 < v /\ v <= 700
      [] b = 5 -> 500 < v /\ v <= 600
      [] b = 6 -> v < 450

BandOf(faixa) ==
    CASE faixa = "> 90%" -> 1
      [] faixa = "80% < x <= 90%" -> 2
      [] faixa = "70% < x <= 80%" -> 3
      [] faixa = "60% < x <= 70%" -> 4
      [] faixa = "50% < x <= 60%" -> 5
      [] faixa = "< 45%" -> 6

RECURSIVE SumSeq(_)
SumSeq(q) == IF q = <<>> THEN 0 ELSE Head(q) + SumSeq(Tail(q))

Idxs(t) == {t.rows[i].idx : i \in 1..Len(t.rows)}

-----------------------------------------------------------------------------
(* C1, C2, C7: load_data                                                   *)

\* C1: after load_data a row is 'Fora da Garantia' exactly when its
\* installation cell parsed to a date more than 365 days before the day of
\* the load, and 'Na Garantia' otherwise (missing, unparseable, exactly 365).
C1_WarrantyRule ==
    cache.valid =>
        /\ Len(cache.df.rows) = Len(cache.src.rows)
        /\ \A i \in 1..Len(cache.df.rows) :
              LET t == cache.src.rows[i].inst
                  g == cache.df.rows[i].garantia
              IN  /\ g \in {"Fora da Garantia", "Na Garantia"}
                  /\ g = "Fora da Garantia" <=> (t.k = "date" /\ cache.data_atual - t.d > 365)

C1_Witness ==
    /\ cache.valid
    /\ \E i \in 1..Len(cache.df.rows) :
          /\ cache.src.rows[i].inst.k = "date"
          /\ cache.data_atual - cache.src.rows[i].inst.d = 365
          /\ cache.df.rows[i].garantia = "Na Garantia"
    /\ \E i \in 1..Len(cache.df.rows) :
          /\ cache.src.rows[i].inst.k = "date"
          /\ cache.data_atual - cache.src.rows[i].inst.d = 400
          /\ cache.df.rows[i].garantia = "Fora da Garantia"

\* C2: after load_data a row is 'Offline' exactly when its offline cell
\* parsed to a date, and 'Online' otherwise; every row is one of the two.
C2_OperationalRule ==
    cache.valid =>
        \A i \in 1..Len(cache.df.rows) :
            LET t == cache.src.rows[i].off
                o == cache.df.rows[i].operacional
            IN  /\ o \in {"Online", "Offline"}
                /\ o = "Offline" <=> t.k = "date"

C2_Witness ==
    /\ cache.valid
    /\ \E i \in 1..Len(cache.df.rows) :
          cache.src.rows[i].off.k = "bad" /\ cache.df.rows[i].operacional = "Online"
    /\ \E i \in 1..Len(cache.df.rows) :
          cache.src.rows[i].off.k = "date" /\ cache.df.rows[i].operacional = "Offline"

\* C7: in every run the statuses of the frame the run uses are those of the
\* file as it is at that run, the warranty rule taken at that run's day.
C7_NeverStale ==
    out.ran =>
        /\ Len(cache.df.rows) = Len(out.run_csv.rows)
        /\ \A i \in 1..Len(cache.df.rows) :
              LET t == out.run_csv.rows[i]
                  r == cache.df.rows[i]
              IN  /\ r.garantia = "Fora da Garantia" <=> (t.inst.k = "date" /\ out.run_day - t.inst.d > 365)
                  /\ r.operacional = "Offline" <=> t.off.k = "date"

-----------------------------------------------------------------------------
(* C3, C4, C8: apply_generation_range_filter                               *)

\* the CSV cell behind row r of the frame passed to the call
CellOf(r) == csv.rows[r.idx + 1].gen[call.col]

\* C3: with a label other than 'Todos' the function returns input rows only,
\* each once and otherwise untouched; the value of every returned row in the
\* named column is the number its cell is worth and lies in the label's band;
\* and every input row whose cell is worth a number in the band is returned.
C3_FilterIsBand ==
    (call.done /\ call.faixa # "Todos") =>
        /\ \A j \in 1..Len(call.ret.rows) :
              \E i \in 1..Len(call.arg.rows) :
                  /\ call.arg.rows[i].idx = call.ret.rows[j].idx
                  /\ [call.ret.rows[j] EXCEPT !.gen[call.col] = NaNCell]
                       = [call.arg.rows[i] EXCEPT !.gen[call.col] = NaNCell]
        /\ \A j, k \in 1..Len(call.ret.rows) : j < k => call.ret.rows[j].idx < call.ret.rows[k].idx
        /\ call.col \in call.arg.columns =>
              /\ \A j \in 1..Len(call.ret.rows) :
                    LET c == call.ret.rows[j].gen[call.col]
                    IN  /\ c.k = "num"
                        /\ ExpectedValue(CellOf(call.ret.rows[j])) = {c.v}
                        /\ InBand(BandOf(call.faixa), c.v)
              /\ \A i \in 1..Len(call.arg.rows) :
                    (\E v \in ExpectedValue(CellOf(call.arg.rows[i])) : InBand(BandOf(call.faixa), v))
                        => call.arg.rows[i].idx \in Idxs(call.ret)

C3_Witness ==
    /\ call.done
    /\ call.faixa = "80% < x <= 90%"
    /\ call.col = "Quinzenal"
    /\ Len(call.arg.rows) = 2
    /\ Len(call.ret.rows) = 1
    /\ CellOf(call.ret.rows[1]) = <<"9", "0", "%">>
    /\ \E i \in 1..2 : CellOf(call.arg.rows[i]) = <<"9", "0", ".", "1">>

\* the labels whose filter keeps the row with index x of the frame of the call
LabelsKeeping(x) ==
    {f \in Faixas : x \in Idxs(apply_generation_range_filter(call.arg, call.col, f).ret)}

\* the chart bands that count the value v
BandsCounting(v) ==
    LET one == [columns |-> Periods, dtype |-> [p \in Periods |-> "float64"],
                rows |-> <<[gen |-> [p \in Periods |-> NumCell(v)]]>>]
    IN  {b \in 1..6 : BucketCounts(one, "Diario")[b] = 1}

\* C4 as stated: a value is in exactly one bucket, of the filter and of the
\* charts, unless it lies in (45,50], and then in none.
C4_GapIsOpenAt45 ==
    (call.done /\ call.col \in call.arg.columns) =>
        \A i \in 1..Len(call.arg.rows) :
            \A v \in ExpectedValue(CellOf(call.arg.rows[i])) :
                /\ Cardinality(LabelsKeeping(call.arg.rows[i].idx)) = (IF 450 < v /\ v <= 500 THEN 0 ELSE 1)
                /\ Cardinality(BandsCounting(v)) = (IF 450 < v /\ v <= 500 THEN 0 ELSE 1)

\* C4 amended: a value is in exactly one bucket, of the filter and of the
\* charts, unless it lies in [45,50] (45 included), and then in none.
C4_GapIsClosedAt45 ==
    (call.done /\ call.col \in call.arg.columns) =>
        \A i \in 1..Len(call.arg.rows) :
            \A v \in ExpectedValue(CellOf(call.arg.rows[i])) :
                /\ Cardinality(LabelsKeeping(call.arg.rows[i].idx)) = (IF 450 <= v /\ v <= 500 THEN 0 ELSE 1)
                /\ Cardinality(BandsCounting(v)) = (IF 450 <= v /\ v <= 500 THEN 0 ELSE 1)

C4_Witness ==
    /\ call.done
    /\ call.col = "Diario"
    /\ Len(call.arg.rows) = 2
    /\ CellOf(call.arg.rows[1]) = <<"4", "5">>
    /\ LabelsKeeping(call.arg.rows[1].idx) = {}
    /\ CellOf(call.arg.rows[2]) = <<"4", "4", ".", "9">>
    /\ LabelsKeeping(call.arg.rows[2].idx) = {"< 45%"}

\* C8: with a label other than 'Todos' and a column the frame does not have,
\* the function warns and returns the rows and columns it was given, and the
\* frame it was given is as it was.
C8_MissingColumnUnchanged ==
    (call.done /\ call.faixa # "Todos" /\ call.col \notin call.arg.columns) =>
        /\ call.warning # ""
        /\ call.ret.rows = call.arg.rows
        /\ call.ret.columns = call.arg.columns
        /\ call.ret.dtype = call.arg.dtype
        /\ call.arg_after = call.arg

C8_Witness ==
    /\ call.done
    /\ call.faixa = "> 90%"
    /\ call.col = "Anual"
    /\ "Anual" \notin call.arg.columns
    /\ Len(call.arg.rows) = 2
    /\ Len(call.ret.rows) = 2

-----------------------------------------------------------------------------
(* C5, C6, C9, C10: the script                                             *)

\* the rows of table t whose value in the column of period p lies in band b
RowsInBand(t, p, b) ==
    {i \in 1..Len(t.rows) : t.rows[i].gen[p].k = "num" /\ InBand(b, t.rows[i].gen[p].v)}

RowsInGap(t, p) ==
    {i \in 1..Len(t.rows) : t.rows[i].gen[p].k = "num" /\ 450 < t.rows[i].gen[p].v /\ t.rows[i].gen[p].v <= 500}

\* the six counts of a chart are those of its table, band by band, and add up
\* to the table's row count only if no row is in (45,50]
CountsMatch(c, p) ==
    /\ Len(c.counts) = 6
    /\ \A b \in 1..6 : c.counts[b] = Cardinality(RowsInBand(c.table, p, b))
    /\ SumSeq(c.counts) = Len(c.table.rows) => RowsInGap(c.table, p) = {}
    /\ RowsInGap(c.table, p) # {} => SumSeq(c.counts) < Len(c.table.rows)

\* C5: every run gives, for each of the four charts, exactly six counts, each
\* the number of rows of the chart's table in that band, adding up to the row
\* count only if no row is in (45,50].
C5_SixCountsPerChart ==
    out.ran => \A p \in Periods : out.charts[p].ran /\ CountsMatch(out.charts[p], p)

\* C5 on the charts a run does produce: the counts are those of the claim.
C5_CountsOfProducedCharts ==
    out.ran => \A p \in Periods :
        (out.charts[p].ran /\ ~out.charts[p].raised) => CountsMatch(out.charts[p], p)

C5_ProducedWitness ==
    /\ out.ran
    /\ out.status = "done"
    /\ out.charts["Anual"].counts = <<0, 0, 0, 0, 0, 0>>
    /\ RowsInGap(out.charts["Anual"].table, "Anual") # {}
    /\ out.charts["Diario"].counts = <<1, 0, 0, 0, 0, 1>>

\* the base table, row by row, as the file says it
BaseOnline == {i \in 1..Len(csv.rows) : csv.rows[i].off.k # "date"}
BaseOffline == {i \in 1..Len(csv.rows) : csv.rows[i].off.k = "date"}

\* C6: whatever the four selections, the three metrics are the row count, the
\* Online count and the Offline count of the unfiltered table.
C6_MetricsOfBaseTable ==
    out.ran =>
        /\ out.metrics.total = Len(csv.rows)
        /\ out.metrics.online = Cardinality(BaseOnline)
        /\ out.metrics.offline = Cardinality(BaseOffline)

C6_Witness ==
    /\ out.ran
    /\ sel.operational = "Offline"
    /\ sel.warranty = "Fora da Garantia"
    /\ sel.periodo = "Diario"
    /\ sel.faixa = "> 90%"
    /\ Len(out.filtered_df.rows) = 1
    /\ out.metrics = [total |-> 2, online |-> 1, offline |-> 1]

\* C9: every run completes and gives the four six-band count tables.
C9_NoAbort ==
    out.ran =>
        /\ out.status = "done"
        /\ \A p \in Periods : out.charts[p].ran /\ Len(out.charts[p].counts) = 6

\* the status-filtered table of a run: a function of the two status selections
StatusFiltered == FilteredDf(cache.df, [DefaultSel EXCEPT !.warranty = sel.warranty, !.operational = sel.operational])

\* what the chart of period p is computed from
GatedTable(p) ==
    IF sel.periodo = p \/ sel.periodo = "Todos"
    THEN apply_generation_range_filter(StatusFiltered, p, sel.faixa).ret
    ELSE StatusFiltered

\* C10: the chart of period p is computed from the status-filtered table passed
\* through the range filter when the selected period is p or 'Todos', and from
\* the status-filtered table itself otherwise; the status-filtered table, the
\* pies and the displayed table do not depend on the period or the bucket.
C10_PeriodGating ==
    out.ran =>
        /\ \A p \in Periods :
              /\ out.charts[p].ran
              /\ out.charts[p].table = GatedTable(p)
              /\ Len(out.charts[p].counts) = 6
              /\ \A b \in 1..6 : out.charts[p].counts[b] = Cardinality(RowsInBand(GatedTable(p), p, b))
        /\ out.filtered_df = StatusFiltered
        /\ out.operational_pie.counts = OperationalCounts(StatusFiltered)
        /\ out.warranty_pie.counts = WarrantyCounts(StatusFiltered)
        /\ out.table_shown
        /\ out.table_rows = StatusFiltered.rows

\* C10 on the part of a run that is reached.
C10_GatingOfReachedCharts ==
    out.ran =>
        /\ \A p \in Periods :
              out.charts[p].ran =>
                  /\ out.charts[p].table = GatedTable(p)
                  /\ ~out.charts[p].raised =>
                        \A b \in 1..6 : out.charts[p].counts[b] = Cardinality(RowsInBand(GatedTable(p), p, b))
        /\ out.filtered_df = StatusFiltered
        /\ out.operational_pie.counts = OperationalCounts(StatusFiltered)
        /\ out.warranty_pie.counts = WarrantyCounts(StatusFiltered)
        /\ out.table_shown => out.table_rows = StatusFiltered.rows

=============================================================================
